---- MODULE Spec2Model ----
(***************************************************************************)
(* A model of desk_organize.py: the FileOrganizer that extracts text from  *)
(* the files of a base directory, asks a remote classifier for a category, *)
(* moves each file into the category directory, logs the moves and can     *)
(* roll them back.                                                         *)
(*                                                                         *)
(* Paths are sequences of name components relative to the base directory   *)
(* (<<"Reports", "f1.txt">> is {base}/Reports/f1.txt).  The file system fs *)
(* is a function from the existing paths to "dir" or to the content of a   *)
(* regular file.  A line of .excluded_dirs and a classifier label are      *)
(* written the same way, split at "/".                                     *)
(***************************************************************************)
EXTENDS Integers, Sequences, FiniteSets, TLC

VARIABLES
    fs,                 \* the tree below base_dir: path -> "dir" | content
    log,                \* rollback_log.json on disk: [exists, entries]
    ftoFile,            \* .files_to_organize on disk: [exists, lines]
    exclFile,           \* .excluded_dirs on disk: [exists, lines]
    env_key,            \* whether DEEPSEEK_API_KEY is set
    mode,               \* "none" | "organize" | "rollback" (args.rollback)
    pc,                 \* position of the running process
    files_to_organize,  \* self.files_to_organize
    excluded_dirs,      \* self.excluded_dirs
    existing_dirs,      \* self.existing_dirs
    moved_files,        \* self.moved_files
    all_items,          \* organize_files: os.listdir(base_dir)
    todo,               \* organize_files: the entries the loop has not reached
    text,               \* organize_files: text_content of the current file
    data,               \* categorize_text_with_deepseek: the request body
    attempt,            \* categorize_text_with_deepseek: the loop variable
    category,           \* organize_files: the label returned
    outage,             \* the endpoint: consecutive failures still to come
    outage0,            \* history: outage when the current call began
    posts,              \* history: requests.post calls of the current call
    sleeps,             \* history: time.sleep calls of the current call
    calls,              \* history: classifier calls made for the current file
    err,                \* history: what made the process die
    report,             \* history: the last diagnostic rollback printed
    fs0,                \* history: fs when the process was constructed
    log0,               \* history: log when the process was constructed
    prev                \* history: how the previous process ended

vars == <<fs, log, ftoFile, exclFile, env_key, mode, pc, files_to_organize,
          excluded_dirs, existing_dirs, moved_files, all_items, todo, text,
          data, attempt, category, outage, outage0, posts, sleeps, calls,
          err, report, fs0, log0, prev>>

(***************************************************************************)
(* Bounds and program constants                                            *)
(***************************************************************************)
\* The longest run of consecutive endpoint failures a call can meet.
MaxOutage == 3
\* The most pages a PDF of the model has.
MaxPdfPages == 2
\* categorize_text_with_deepseek(retries=3)
Retries == 3
\* PdfExtractor.extract(max_pages=10)
MaxPages == 10

\* os.path.basename(self.base_dir)
BaseName == "Desktop"

\* self.extractors: the extensions that have an extractor.
Extractors == {"txt", "pdf", "docx", "png", "jpg", "jpeg"}

\* The names an entry of the base directory can have, in directory order,
\* each with its split at "." (str.split(".")).
NameOrder ==
    << ".excluded_dirs", ".files_to_organize", "Misc", "Reports", "f1.txt",
       "f2.PDF", "old", "rollback_log.json" >>

NameParts ==
    [n \in {NameOrder[i] : i \in 1..Len(NameOrder)} |->
        CASE n = ".excluded_dirs"      -> <<"", "excluded_dirs">>
          [] n = ".files_to_organize"  -> <<"", "files_to_organize">>
          [] n = "Misc"                -> <<"Misc">>
          [] n = "Reports"             -> <<"Reports">>
          [] n = "f1.txt"              -> <<"f1", "txt">>
          [] n = "f2.PDF"              -> <<"f2", "PDF">>
          [] n = "old"                 -> <<"old">>
          [] n = "rollback_log.json"   -> <<"rollback_log", "json">>]

\* str.lower() on the extensions of the model.
Lower(s) == IF s = "PDF" THEN "pdf" ELSE s

\* The labels the classifier may answer: an existing directory, a nested
\* one, a new name, and a name that is also the name of a file of the base
\* directory (the answer is used as a path as it comes).
Labels == { <<"Reports">>, <<"Reports", "Q1">>, <<"Misc">>, <<"f1.txt">> }

(***************************************************************************)
(* The file system                                                         *)
(***************************************************************************)
Last(s) == s[Len(s)]
Front(s) == SubSeq(s, 1, Len(s) - 1)
IsPrefix(p, q) == Len(p) <= Len(q) /\ SubSeq(q, 1, Len(p)) = p

\* os.path.exists, os.path.isdir, os.path.isfile; <<>> is base_dir itself.
Exists(f, p) == p = <<>> \/ p \in DOMAIN f
IsDir(f, p) == p = <<>> \/ (p \in DOMAIN f /\ f[p] = "dir")
IsFile(f, p) == p \in DOMAIN f /\ f[p] # "dir"

\* os.makedirs(p, exist_ok=True): fails when p or a directory above it is a
\* regular file, and otherwise leaves every prefix of p a directory.
MakedirsOk(f, p) == \A k \in 1..Len(p) : ~IsFile(f, SubSeq(p, 1, k))
Makedirs(f, p) ==
    LET new == {SubSeq(p, 1, k) : k \in 1..Len(p)} \ DOMAIN f
    IN  [q \in DOMAIN f \cup new |-> IF q \in DOMAIN f THEN f[q] ELSE "dir"]

\* os.rename(src, dst) of a file or a whole directory onto a free path or
\* onto a regular file, which it replaces.
Rename(f, src, dst) ==
    LET under == {q \in DOMAIN f : IsPrefix(src, q)}
        moved(q) == dst \o SubSeq(q, Len(src) + 1, Len(q))
        kept == (DOMAIN f \ under) \ {dst}
    IN  [q \in kept \cup {moved(u) : u \in under} |->
            IF q \in kept THEN f[q]
            ELSE f[CHOOSE u \in under : moved(u) = q]]

\* shutil.move(src, dst): [ok, fs].  A destination that is a directory
\* takes the source inside it, under the source's name, unless that name is
\* taken there.  Otherwise os.rename, and where os.rename refuses to replace
\* a regular file by a regular file the copy-and-unlink fallback replaces
\* it all the same.  A directory is never moved onto a regular file.
ShutilMove(f, src, dst) ==
    LET real_dst == IF IsDir(f, dst) THEN dst \o <<Last(src)>> ELSE dst
    IN  IF IsDir(f, dst) /\ src = dst THEN [ok |-> TRUE, fs |-> f]
        ELSE IF IsDir(f, dst) /\ Exists(f, real_dst) THEN [ok |-> FALSE, fs |-> f]
        ELSE IF ~Exists(f, src) \/ ~IsDir(f, Front(real_dst)) THEN [ok |-> FALSE, fs |-> f]
        ELSE IF IsDir(f, src) /\ (IsFile(f, real_dst) \/ IsPrefix(src, real_dst))
             THEN [ok |-> FALSE, fs |-> f]
        ELSE [ok |-> TRUE, fs |-> Rename(f, src, real_dst)]

(***************************************************************************)
(* FileOrganizer: loading, scanning, moving, logging                       *)
(***************************************************************************)
\* load_files_to_organize, load_excluded_dirs: the non-blank lines of the
\* control file as a set, the empty set when the file is absent.
LoadLines(file) == IF file.exists THEN file.lines ELSE {}

\* The names of the entries directly below directory root.
Children(f, root) ==
    {Last(p) : p \in {q \in DOMAIN f : Len(q) = Len(root) + 1 /\ IsPrefix(root, q)}}

\* get_existing_directories: os.walk from root, top down.  The directories
\* whose name is excluded are dropped from the walk; a directory reached is
\* a candidate unless its relative path (for base_dir, its name) is
\* excluded.
RECURSIVE Walk(_, _, _)
Walk(f, excl, root) ==
    LET dirs == {d \in Children(f, root) : IsDir(f, root \o <<d>>)}
        kept == {d \in dirs : <<d>> \notin excl}
        here == IF root = <<>>
                THEN (IF <<BaseName>> \notin excl THEN {<<BaseName>>} ELSE {})
                ELSE (IF root \notin excl THEN {root} ELSE {})
    IN  here \cup UNION {Walk(f, excl, root \o <<d>>) : d \in kept}

get_existing_directories(f, excl) == Walk(f, excl, <<>>)

\* A refresh that keeps the categories scanned before the move.
RefreshDirsStale(old, f, excl) == old

\* organize_files, line 205: the refresh after a move.
RefreshDirs(old, f, excl) == get_existing_directories(f, excl)

\* os.listdir(base_dir): the entries of the base directory, the control
\* files and the rollback log among them.
ListdirNames(f, lg, fto, ex) ==
    {p[1] : p \in {q \in DOMAIN f : Len(q) = 1}}
    \cup (IF lg.exists THEN {"rollback_log.json"} ELSE {})
    \cup (IF fto.exists THEN {".files_to_organize"} ELSE {})
    \cup (IF ex.exists THEN {".excluded_dirs"} ELSE {})

Reverse(s) == [i \in 1..Len(s) |-> s[Len(s) + 1 - i]]

\* The listings os.listdir may return: its order is the directory's own,
\* here the order of NameOrder or its reverse.
Listings(names) ==
    LET asc == SelectSeq(NameOrder, LAMBDA n : n \in names)
    IN  {asc, Reverse(asc)}

\* file_name.split(".")[-1].lower()
Ext(name) == Lower(Last(NameParts[name]))

\* A loop that never consults the list.
NotListedIgnored(fto, name) == FALSE

\* organize_files, lines 193-195: the entry is skipped as not listed.
NotListed(fto, name) == fto # {} /\ name \notin fto

Min(a, b) == IF a <= b THEN a ELSE b

\* The extractors: a PDF of `pages` pages gives a list of one chunk per
\* page, at most max_pages of them; every other extractor gives one string.
Extract(ext, pages) ==
    IF ext = "pdf" THEN [kind |-> "list", n |-> Min(pages, MaxPages)]
    ELSE [kind |-> "str", n |-> 1]

NoText == [kind |-> "none", n |-> 0]
NoData == [filename |-> "", text |-> NoText, categories |-> {}]

\* An entry put in front of moved_files instead of at its end.
AppendMoveFront(mf, original, new) ==
    <<[original |-> original, new |-> new]>> \o mf

\* move_file_to_category, line 162: the entry appended to moved_files.
AppendMove(mf, original, new) ==
    Append(mf, [original |-> original, new |-> new])

\* move_file_to_category(file_path, category) for the file `name` of the
\* base directory: [ok, fs, moved].  A failed os.makedirs changes nothing;
\* a failed shutil.move leaves the directories os.makedirs made.
move_file_to_category(f, mf, name, cat) ==
    IF ~MakedirsOk(f, cat) THEN [ok |-> FALSE, fs |-> f, moved |-> mf]
    ELSE LET f1 == Makedirs(f, cat)
             new_path == cat \o <<name>>
             r == ShutilMove(f1, <<name>>, new_path)
         IN  IF r.ok
             THEN [ok |-> TRUE, fs |-> r.fs, moved |-> AppendMove(mf, <<name>>, new_path)]
             ELSE [ok |-> FALSE, fs |-> f1, moved |-> mf]

\* A log that keeps only the last move.
SaveRollbackLogLast(mf) ==
    [exists |-> TRUE, entries |-> IF mf = <<>> THEN <<>> ELSE <<mf[Len(mf)]>>]

\* save_rollback_log: what json.dump writes to rollback_log.json.
SaveRollbackLog(mf) == [exists |-> TRUE, entries |-> mf]

NoLog == [exists |-> FALSE, entries |-> <<>>]

\* rollback_changes, lines 176-181: each entry in stored order; an entry
\* whose new path is gone is passed over; a failing move ends the loop.
RECURSIVE RollbackEntries(_, _)
RollbackEntries(f, entries) ==
    IF entries = <<>> THEN [ok |-> TRUE, fs |-> f]
    ELSE LET e == Head(entries)
         IN  IF Exists(f, e.new)
             THEN LET r == ShutilMove(f, e.new, e.original)
                  IN  IF r.ok THEN RollbackEntries(r.fs, Tail(entries))
                      ELSE [ok |-> FALSE, fs |-> r.fs]
             ELSE RollbackEntries(f, Tail(entries))

(***************************************************************************)
(* The initial states: the directory before the first run                  *)
(***************************************************************************)
\* The directories of the tree and the two files to organize.
InitTree ==
    LET dirs == { <<"Reports">>, <<"Reports", "Q1">>, <<"Reports", "Q1", "deep">>,
                  <<"Reports", "old">>, <<"old">>, <<"old", "keep">> }
        files == { <<"f1.txt">>, <<"f2.PDF">> }
    IN  [p \in dirs \cup files |-> IF p \in dirs THEN "dir" ELSE Last(p)]

\* What {base}/Reports/f1.txt is before the first run: nothing, a regular
\* file, or a directory.
InitTrees ==
    { InitTree,
      [p \in DOMAIN InitTree \cup {<<"Reports", "f1.txt">>} |->
          IF p \in DOMAIN InitTree THEN InitTree[p] ELSE "other"],
      [p \in DOMAIN InitTree \cup {<<"Reports", "f1.txt">>} |->
          IF p \in DOMAIN InitTree THEN InitTree[p] ELSE "dir"] }

InitFto ==
    { [exists |-> FALSE, lines |-> {}],
      [exists |-> TRUE, lines |-> {}],
      [exists |-> TRUE, lines |-> {"f1.txt"}] }

InitExcl ==
    { [exists |-> FALSE, lines |-> {}],
      [exists |-> TRUE, lines |-> { <<"old">>, <<"Reports", "Q1">> }] }

Init ==
    /\ fs \in InitTrees
    /\ log = NoLog
    /\ ftoFile \in InitFto
    /\ exclFile \in InitExcl
    /\ env_key \in BOOLEAN
    /\ mode = "none"
    /\ pc = "idle"
    /\ files_to_organize = {}
    /\ excluded_dirs = {}
    /\ existing_dirs = {}
    /\ moved_files = <<>>
    /\ all_items = <<>>
    /\ todo = <<>>
    /\ text = NoText
    /\ data = NoData
    /\ attempt = 0
    /\ category = <<>>
    /\ outage = 0
    /\ outage0 = 0
    /\ posts = 0
    /\ sleeps = 0
    /\ calls = 0
    /\ err = ""
    /\ report = ""
    /\ fs0 = fs
    /\ log0 = log
    /\ prev = "none"

(***************************************************************************)
(* The process: __main__ constructs a FileOrganizer and runs one of        *)
(* organize_files and rollback_changes                                     *)
(***************************************************************************)
disk == <<ftoFile, exclFile, env_key>>
callVars == <<text, data, attempt, category, outage, outage0, posts, sleeps, calls>>
selfVars == <<files_to_organize, excluded_dirs, moved_files>>
histVars == <<fs0, log0, prev, report>>

ResetCall ==
    /\ text' = NoText
    /\ data' = NoData
    /\ attempt' = 0
    /\ category' = <<>>
    /\ outage' = 0
    /\ outage0' = 0
    /\ posts' = 0
    /\ sleeps' = 0
    /\ calls' = 0

\* __main__ and __init__: a new process starts once the last one has ended.
\* Without the API key load_api_key raises before anything is loaded.
Construct(m) ==
    /\ pc \in {"idle", "done", "fatal"}
    /\ mode' = m
    /\ prev' = IF pc = "done" /\ mode = "organize" THEN "organized" ELSE "other"
    /\ fs0' = fs
    /\ log0' = log
    /\ report' = ""
    /\ moved_files' = <<>>
    /\ all_items' = <<>>
    /\ todo' = <<>>
    /\ ResetCall
    /\ IF env_key
       THEN /\ files_to_organize' = LoadLines(ftoFile)
            /\ excluded_dirs' = LoadLines(exclFile)
            /\ existing_dirs' = get_existing_directories(fs, LoadLines(exclFile))
            /\ pc' = IF m = "rollback" THEN "rollback" ELSE "organize"
            /\ err' = ""
       ELSE /\ files_to_organize' = {}
            /\ excluded_dirs' = {}
            /\ existing_dirs' = {}
            /\ pc' = "fatal"
            /\ err' = "config"
    /\ UNCHANGED <<fs, log, disk>>

\* organize_files, line 187.
OrganizeStart ==
    /\ pc = "organize"
    /\ \E l \in Listings(ListdirNames(fs, log, ftoFile, exclFile)) :
          /\ all_items' = l
          /\ todo' = l
    /\ pc' = "loop"
    /\ UNCHANGED <<fs, log, disk, mode, selfVars, existing_dirs, callVars, err, histVars>>

Continue ==
    /\ todo' = Tail(todo)
    /\ UNCHANGED <<fs, log, disk, mode, pc, selfVars, existing_dirs, all_items,
                   callVars, err, histVars>>

\* lines 193-195: the entry is not in the list the user gave.
SkipNotListed ==
    /\ pc = "loop" /\ todo # <<>>
    /\ NotListed(files_to_organize, Head(todo))
    /\ Continue

\* lines 206-207: a file no extractor takes.
SkipUnsupported ==
    /\ pc = "loop" /\ todo # <<>>
    /\ ~NotListed(files_to_organize, Head(todo))
    /\ ~IsDir(fs, <<Head(todo)>>)
    /\ Ext(Head(todo)) \notin Extractors
    /\ Continue

\* lines 208-216: a directory.
SkipDirectory ==
    /\ pc = "loop" /\ todo # <<>>
    /\ ~NotListed(files_to_organize, Head(todo))
    /\ IsDir(fs, <<Head(todo)>>)
    /\ Continue

Supported ==
    /\ pc = "loop" /\ todo # <<>>
    /\ ~NotListed(files_to_organize, Head(todo))
    /\ IsFile(fs, <<Head(todo)>>)
    /\ Ext(Head(todo)) \in Extractors

\* lines 201-202 and 132-142: the extractor returns the text, and
\* categorize_text_with_deepseek is called once with it and builds its
\* request from the categories known now.  The endpoint is about to fail
\* some number of times in a row.
ExtractAndCall ==
    /\ Supported
    /\ \E pages \in 0..MaxPdfPages :
          /\ text' = Extract(Ext(Head(todo)), pages)
          /\ data' = [filename |-> Head(todo),
                      text |-> Extract(Ext(Head(todo)), pages),
                      categories |-> existing_dirs]
    /\ \E o \in 0..MaxOutage : outage' = o /\ outage0' = o
    /\ calls' = calls + 1
    /\ attempt' = 0
    /\ posts' = 0
    /\ sleeps' = 0
    /\ pc' = "post"
    /\ UNCHANGED <<fs, log, disk, mode, selfVars, existing_dirs, all_items, todo,
                   category, err, histVars>>

\* line 201: the extractor raises on a file it cannot read.
ExtractFails ==
    /\ Supported
    /\ pc' = "fatal"
    /\ err' = "extract"
    /\ UNCHANGED <<fs, log, disk, mode, selfVars, existing_dirs, all_items, todo,
                   callVars, histVars>>

\* lines 146-148: the request succeeds and the answer is returned.
PostOk ==
    /\ pc = "post"
    /\ outage = 0
    /\ posts' = posts + 1
    /\ \E l \in Labels : category' = l
    /\ pc' = "move"
    /\ UNCHANGED <<fs, log, disk, mode, selfVars, existing_dirs, all_items, todo,
                   text, data, attempt, outage, outage0, sleeps, calls, err, histVars>>

\* line 148: the answer has no choices[0].message.content.
PostMalformed ==
    /\ pc = "post"
    /\ outage = 0
    /\ posts' = posts + 1
    /\ pc' = "fatal"
    /\ err' = "response"
    /\ UNCHANGED <<fs, log, disk, mode, selfVars, existing_dirs, all_items, todo,
                   text, data, attempt, category, outage, outage0, sleeps, calls,
                   histVars>>

\* lines 146-150: the request raises a RequestException.
PostFails ==
    /\ pc = "post"
    /\ outage > 0
    /\ posts' = posts + 1
    /\ outage' = outage - 1
    /\ pc' = "sleep"
    /\ UNCHANGED <<fs, log, disk, mode, selfVars, existing_dirs, all_items, todo,
                   text, data, attempt, category, outage0, sleeps, calls, err,
                   histVars>>

\* lines 151, 144: time.sleep(wait), then the next attempt.
SleepAndRetry ==
    /\ pc = "sleep"
    /\ attempt + 1 < Retries
    /\ sleeps' = sleeps + 1
    /\ attempt' = attempt + 1
    /\ pc' = "post"
    /\ UNCHANGED <<fs, log, disk, mode, selfVars, existing_dirs, all_items, todo,
                   text, data, category, outage, outage0, posts, calls, err,
                   histVars>>

\* lines 151, 144, 152: time.sleep(wait), the loop is over, the call raises.
SleepAndRaise ==
    /\ pc = "sleep"
    /\ ~(attempt + 1 < Retries)
    /\ sleeps' = sleeps + 1
    /\ attempt' = attempt + 1
    /\ pc' = "fatal"
    /\ err' = "api"
    /\ UNCHANGED <<fs, log, disk, mode, selfVars, existing_dirs, all_items, todo,
                   text, data, category, outage, outage0, posts, calls, histVars>>

\* lines 203-205: the move succeeds and the categories are scanned again.
Move ==
    /\ pc = "move"
    /\ LET r == move_file_to_category(fs, moved_files, Head(todo), category)
       IN  /\ r.ok
           /\ fs' = r.fs
           /\ moved_files' = r.moved
           /\ existing_dirs' = RefreshDirs(existing_dirs, r.fs, excluded_dirs)
    /\ todo' = Tail(todo)
    /\ pc' = "loop"
    /\ ResetCall
    /\ UNCHANGED <<log, disk, mode, files_to_organize, excluded_dirs, all_items,
                   err, histVars>>

\* line 203: os.makedirs or shutil.move raises.
MoveFails ==
    /\ pc = "move"
    /\ LET r == move_file_to_category(fs, moved_files, Head(todo), category)
       IN  /\ ~r.ok
           /\ fs' = r.fs
    /\ pc' = "fatal"
    /\ err' = "move"
    /\ UNCHANGED <<log, disk, mode, selfVars, existing_dirs, all_items, todo,
                   callVars, histVars>>

\* line 218: the loop is over.
SaveLog ==
    /\ pc = "loop" /\ todo = <<>>
    /\ log' = SaveRollbackLog(moved_files)
    /\ pc' = "done"
    /\ UNCHANGED <<fs, disk, mode, selfVars, existing_dirs, all_items, todo,
                   callVars, err, histVars>>

\* rollback_changes, lines 171-173.
RollbackNoLog ==
    /\ pc = "rollback"
    /\ ~log.exists
    /\ report' = "No rollback log found."
    /\ pc' = "done"
    /\ UNCHANGED <<fs, log, disk, mode, selfVars, existing_dirs, all_items, todo,
                   callVars, err, fs0, log0, prev>>

\* rollback_changes, lines 174-182: the moves back, then os.remove of the
\* log; a shutil.move that raises ends the process with the log in place.
Rollback ==
    /\ pc = "rollback"
    /\ log.exists
    /\ LET r == RollbackEntries(fs, log.entries)
       IN  /\ fs' = r.fs
           /\ log' = IF r.ok THEN NoLog ELSE log
           /\ pc' = IF r.ok THEN "done" ELSE "fatal"
           /\ err' = IF r.ok THEN err ELSE "move"
    /\ UNCHANGED <<disk, mode, selfVars, existing_dirs, all_items, todo,
                   callVars, histVars>>

Next ==
    \/ Construct("organize")
    \/ Construct("rollback")
    \/ OrganizeStart
    \/ SkipNotListed
    \/ SkipUnsupported
    \/ SkipDirectory
    \/ ExtractAndCall
    \/ ExtractFails
    \/ PostOk
    \/ PostMalformed
    \/ PostFails
    \/ SleepAndRetry
    \/ SleepAndRaise
    \/ Move
    \/ MoveFails
    \/ SaveLog
    \/ RollbackNoLog
    \/ Rollback

Spec == Init /\ [][Next]_vars

(***************************************************************************)
(* Properties                                                              *)
(***************************************************************************)
Entries(mf) == {mf[i] : i \in 1..Len(mf)}

\* C1: a rollback right after a completed organize run puts every logged
\* file back at its original path (the regular file that was there, the new
\* path vacated) and deletes rollback_log.json; a rollback that finds no
\* log changes nothing and reports "No rollback log found."
C1_RollbackRestores ==
    (mode = "rollback" /\ pc = "done") =>
        IF log0.exists
        THEN /\ ~log.exists
             /\ prev = "organized" =>
                   \A e \in Entries(log0.entries) :
                       /\ IsFile(fs, e.original)
                       /\ fs[e.original] = Last(e.original)
                       /\ ~Exists(fs, e.new)
        ELSE fs = fs0 /\ report = "No rollback log found."

\* What C2 promises of one move of the current file into `category`.
MovePost ==
    LET name == Head(todo)
        new_path == category \o <<name>>
    IN  /\ pc' = "loop"
        /\ ~Exists(fs', <<name>>)
        /\ IsFile(fs', new_path)
        /\ fs'[new_path] = fs[<<name>>]
        /\ moved_files' = Append(moved_files, [original |-> <<name>>, new |-> new_path])

C4_ThreeFailuresThenSuccess ==
    outage0 = Retries => ~(pc = "fatal" /\ err = "api")

\* C5: a file extracted as several chunks has had one classifier call per
\* chunk by the time it is moved.
C5_OneCallPerChunk ==
    (pc = "move" /\ text.kind = "list" /\ text.n >= 2) => calls = text.n

\* C6: a move whose destination directory already holds a file of the same
\* name raises, leaves every file in place and appends no entry.
C6_MoveFailsOnCollision ==
    [][(pc = "move" /\ IsFile(fs, category \o <<Head(todo)>>))
          => (pc' = "fatal" /\ fs' = fs /\ moved_files' = moved_files)]_vars

\* Directory d is the excluded entry e or lies below it: e as a relative
\* path is a prefix of d, or e as a name is a component of d.
AtOrBelow(d, e) == IsPrefix(e, d) \/ (Len(e) = 1 /\ \E i \in 1..Len(d) : d[i] = e[1])

\* The candidates C7 describes: base_dir unless excluded, and every
\* directory that is neither an excluded entry nor below one.
Candidates(f, excl) ==
    (IF <<BaseName>> \in excl THEN {} ELSE {<<BaseName>>})
    \cup {p \in DOMAIN f : f[p] = "dir" /\ \A e \in excl : ~AtOrBelow(p, e)}

\* C7: a fresh scan returns no excluded directory and no directory below
\* one, and returns every other directory.
C7_ExclusionTransitive ==
    pc \in {"organize", "rollback"} => existing_dirs = Candidates(fs, excluded_dirs)

\* C8: a call posts at most `retries` times, and the delay is waited only
\* between two attempts: a call that returns or raises after n posts has
\* slept n - 1 times.
C8_DelayOnlyBetweenAttempts ==
    /\ posts <= Retries
    /\ pc = "move" => sleeps = posts - 1
    /\ (pc = "fatal" /\ err = "api") => (posts = Retries /\ sleeps = posts - 1)

C10_HaltAndLog ==
    /\ [](mode = "organize" =>
            /\ pc = "fatal" => log = log0
            /\ pc = "done" => (todo = <<>> /\ log = [exists |-> TRUE, entries |-> moved_files])
            /\ pc \notin {"done", "fatal"} => log = log0)
    /\ [][(mode = "organize" /\ pc' = "fatal" /\ pc # "fatal") =>
            /\ moved_files' = moved_files
            /\ todo' = todo
            /\ \A p \in DOMAIN fs : p \in DOMAIN fs' /\ fs'[p] = fs[p]]_vars
    /\ [][pc = "fatal" => (fs' = fs /\ log' = log /\ pc' \in {"organize", "rollback", "fatal"})]_vars

\* C10 witness: the classifier call for the second file ran out of retries
\* after the first file was moved; no log exists and the first file is at
\* its new path.
C10_Witness ==
    /\ mode = "organize" /\ pc = "fatal" /\ err = "api"
    /\ Len(moved_files) = 1
    /\ ~log.exists
    /\ IsFile(fs, moved_files[1].new)
    /\ Len(todo) >= 1

====
